---- MODULE Spec2Model ----
(***************************************************************************)
(* The bridge services (src/app/api/neural-bridge.js, the affiliate bridge *)
(* of src/unnamed/part_001) and the gateway route handlers of              *)
(* src/Dockerfile, as state machines.                                      *)
(***************************************************************************)
EXTENDS Integers, Sequences, FiniteSets, TLC

\* ------------------------------------------------------------------ bounds
\* A run sends its requests under a client workload (Workloads): to one bridge,
\* or a few to each.
\* Metrics workload: GET /metrics requests sent, and nothing else.
MaxMetrics == 25
\* Fill workload: POST /optimize requests sent, each with the body FillBody,
\* among as many GET /metrics as fill the log.
MaxOptimize == 1
\* Mixed workload: appending requests sent, of any kind and with any body of Bodies.
MaxMixed == 3
\* Pair workload: appending requests sent to each bridge, of any kind and body.
MaxPair == 1
\* Largest value Date.now() reaches in a run.
MaxClock == 1
\* Requests the gateway receives in a run.
MaxGateway == 2
\* Invocations of fetchUniversal in a run.
MaxCalls == 2
\* Requests the gateway receives in a run in which the bridges run as well.
MaxForwarded == 1

\* --------------------------------------------------------------- constants
\* `if (activities.length > 20) activities.length = 20`
Capacity == 20

Bridges == {"neural", "affiliate"}

\* JSON object bodies a client posts to /optimize.  The empty function is {}.
Bodies ==
  { <<>>,
    [campaign |-> "X"],
    [foo |-> 1],
    [type |-> "custom"],
    [timestamp |-> 99] }

\* The body of the fill workload's POST /optimize.
FillBody == [campaign |-> "X"]

VARIABLES
  activities,  \* per bridge: `const activities = []`, a sequence of objects
  served,      \* per bridge: appending requests handled, by route
  quota,       \* per bridge: appending requests its clients send in this run
  clock,       \* the value Date.now() returns
  last,        \* the last exchange of a bridge: the request and its response
  gw,          \* the gateway's requests, in order of arrival: one record per
               \* invocation of GET or POST, with the locals of that invocation
  hook,        \* useUniversalFetcher: its state { loading, error, data }, the
               \* three `useState` cells
  invocations, \* the invocations of fetchUniversal, in order of invocation: one
               \* record per invocation, with its locals and what it has done
  running      \* per bridge: the route callbacks its event loop has entered and
               \* not left, each with the statements it has still to run

bridgeVars == <<activities, served, quota, clock, last, running>>
adapterVars == <<hook, invocations>>
vars == <<activities, served, quota, clock, last, gw, hook, invocations, running>>

\* ------------------------------------------------------------------ helpers
Min(a, b) == IF a < b THEN a ELSE b

\* JavaScript values, tagged by their type: null, strings, booleans, numbers
\* (a number by its decimal digits), objects (by their fields).
Null == <<"null">>
Str(s) == <<"string", s>>
Bool(v) == <<"boolean", v>>
Num(digits) == <<"number", digits>>
Object(fields) == <<"object", fields>>

\* Object spread / property list: the keys of g override those of f.
Merge(f, g) ==
  [k \in (DOMAIN f) \cup (DOMAIN g) |-> IF k \in DOMAIN g THEN g[k] ELSE f[k]]

\* Mutant: the payload is not spread into the object, `{ type, timestamp }`.
NewRecordDropsPayload(type, payload, now) ==
  Merge([type |-> type], [timestamp |-> now])

\* Mutant: the payload is kept under a key of its own, `{ type, payload, timestamp }`.
NewRecordNested(type, payload, now) ==
  [type |-> type, payload |-> payload, timestamp |-> now]

\* `{ type, ...payload, timestamp: Date.now() }`
NewRecord(type, payload, now) ==
  Merge(Merge([type |-> type], payload), [timestamp |-> now])

\* Number of objects bridge b has put in its log so far.
Appended(b) == served[b].metrics + served[b].optimize

\* Mutant: the array is never cut.
addActivityNoTrim(log, ref, type, payload, now) ==
  <<[ref |-> ref, fields |-> NewRecord(type, payload, now)]>> \o log

\* Mutant: the cut removes the head, `activities.shift()`, not the tail.
addActivityDropsNewest(log, ref, type, payload, now) ==
  LET unshifted == <<[ref |-> ref, fields |-> NewRecord(type, payload, now)]>> \o log
  IN  IF Len(unshifted) > Capacity THEN Tail(unshifted) ELSE unshifted

\* Mutant: `activities.push(...)` and a cut at the front: oldest-first.
addActivityPush(log, ref, type, payload, now) ==
  LET pushed == Append(log, [ref |-> ref, fields |-> NewRecord(type, payload, now)])
  IN  IF Len(pushed) > Capacity THEN Tail(pushed) ELSE pushed

\* Mutant: the records in the log are stamped again on every append.
addActivityRestamps(log, ref, type, payload, now) ==
  LET unshifted == <<[ref |-> ref, fields |-> NewRecord(type, payload, now)]>>
                     \o [i \in 1..Len(log) |-> [log[i] EXCEPT !.fields.timestamp = now]]
  IN  IF Len(unshifted) > Capacity THEN SubSeq(unshifted, 1, Capacity) ELSE unshifted

\* Mutant: `activities.push(...)` and the same cut of the length: the new
\* object goes to the tail.
addActivityPushTail(log, ref, type, payload, now) ==
  LET pushed == Append(log, [ref |-> ref, fields |-> NewRecord(type, payload, now)])
  IN  IF Len(pushed) > Capacity THEN SubSeq(pushed, 1, Capacity) ELSE pushed

\* addActivity on the log `log`: unshift the new object, then cut the array
\* to 20.  `ref` is the identity of the new object (its allocation number).
addActivity(log, ref, type, payload, now) ==
  LET unshifted == <<[ref |-> ref, fields |-> NewRecord(type, payload, now)]>> \o log
  IN  IF Len(unshifted) > Capacity THEN SubSeq(unshifted, 1, Capacity) ELSE unshifted

\* `new Date().toISOString()`
ToISOString(t) == [iso |-> t]

\* The body of GET /<domain>/metrics.
MetricsBody(b, now) ==
  IF b = "neural"
  THEN [globalAnalysis |-> "Processing 2.3M data points",
        automationLevel |-> 87,
        marketTrends |-> <<"North America", "Europe", "Asia Pacific">>,
        timestamp |-> ToISOString(now)]
  ELSE [activeCampaigns |-> 12,
        conversionRate |-> "3.7",
        totalClicks |-> 15420,
        revenue |-> "8750.5",
        topPerformers |-> <<"Tech Products Campaign", "Health & Wellness", "Digital Services">>,
        timestamp |-> ToISOString(now)]

OptimizeMessage(b) ==
  IF b = "neural" THEN "Neural optimization started!" ELSE "Affiliate optimization started!"

\* JSON.stringify of the array: the objects' own fields, in order.
Serialized(log) == [i \in 1..Len(log) |-> log[i].fields]

NoExchange ==
  [request |-> [bridge |-> "none", route |-> "none", body |-> <<>>],
   response |-> [status |-> 0, body |-> <<>>]]

Exchange(b, route, body, status, answer) ==
  [request |-> [bridge |-> b, route |-> route, body |-> body],
   response |-> [status |-> status, body |-> answer]]

\* -------------------------------------------------------------------- init
NoQuota == [total |-> 0, metrics |-> 0, optimize |-> 0, bodies |-> {}]

MetricsQuota ==
  [total |-> MaxMetrics, metrics |-> MaxMetrics, optimize |-> 0, bodies |-> {}]

FillQuota ==
  [total |-> Capacity + MaxOptimize, metrics |-> Capacity, optimize |-> MaxOptimize,
   bodies |-> {FillBody}]

MixedQuota ==
  [total |-> MaxMixed, metrics |-> MaxMixed, optimize |-> MaxMixed, bodies |-> Bodies]

PairQuota ==
  [total |-> MaxPair, metrics |-> MaxPair, optimize |-> MaxPair, bodies |-> Bodies]

\* The workloads: bridge d receives quota q and the other bridges nothing, or
\* every bridge receives PairQuota.
Workloads ==
  { [b \in Bridges |-> IF b = d THEN q ELSE NoQuota] :
      d \in Bridges, q \in {MetricsQuota, FillQuota, MixedQuota} }
  \cup { [b \in Bridges |-> PairQuota] }

\* Both services start with `const activities = []`.
BridgeInit(workloads) ==
  /\ activities = [b \in Bridges |-> <<>>]
  /\ served = [b \in Bridges |-> [metrics |-> 0, optimize |-> 0]]
  /\ quota \in workloads
  /\ clock = 0
  /\ last = NoExchange
  /\ running = [b \in Bridges |-> <<>>]

\* The route handlers keep nothing between requests: no request has arrived.
GatewayInit == gw = <<>>

\* The hook's initial state, and fetchUniversal not yet invoked.
AdapterInit ==
  /\ hook = [loading |-> FALSE, error |-> Null, data |-> Null]
  /\ invocations = <<>>

InitBridge == BridgeInit(Workloads) /\ GatewayInit /\ AdapterInit

\* ----------------------------------------------------------------- actions
\* Time passes.
Tick ==
  /\ clock < MaxClock
  /\ clock' = clock + 1
  /\ UNCHANGED <<activities, served, quota, last, gw, adapterVars, running>>

\* app.get("/<domain>/metrics"): res.json(...) then addActivity("metrics-served").
GetMetrics(b) ==
  /\ Appended(b) < quota[b].total
  /\ served[b].metrics < quota[b].metrics
  /\ last' = Exchange(b, "metrics", <<>>, 200, MetricsBody(b, clock))
  /\ activities' = [activities EXCEPT
       ![b] = addActivity(@, Appended(b) + 1, "metrics-served", <<>>, clock)]
  /\ served' = [served EXCEPT ![b].metrics = @ + 1]
  /\ UNCHANGED <<quota, clock, gw, adapterVars, running>>

\* Mutant: the services share one module-level array: the record goes into
\* every log.
PostOptimizeShared(b, body) ==
  /\ Appended(b) < quota[b].total
  /\ served[b].optimize < quota[b].optimize
  /\ body \in quota[b].bodies
  /\ activities' = [c \in Bridges |->
       addActivity(activities[c], Appended(b) + 1, "optimize-triggered", body, clock)]
  /\ last' = Exchange(b, "optimize", body, 200,
                      [success |-> TRUE, message |-> OptimizeMessage(b)])
  /\ served' = [served EXCEPT ![b].optimize = @ + 1]
  /\ UNCHANGED <<quota, clock, gw, adapterVars, running>>

\* app.post("/<domain>/optimize"): addActivity("optimize-triggered", req.body)
\* then res.json({ success: true, message }).
PostOptimize(b, body) ==
  /\ Appended(b) < quota[b].total
  /\ served[b].optimize < quota[b].optimize
  /\ body \in quota[b].bodies
  /\ activities' = [activities EXCEPT
       ![b] = addActivity(@, Appended(b) + 1, "optimize-triggered", body, clock)]
  /\ last' = Exchange(b, "optimize", body, 200,
                      [success |-> TRUE, message |-> OptimizeMessage(b)])
  /\ served' = [served EXCEPT ![b].optimize = @ + 1]
  /\ UNCHANGED <<quota, clock, gw, adapterVars, running>>

\* Mutant: the handler logs its own call, addActivity("activities-served").
GetActivitiesLogged(b) ==
  /\ last' = Exchange(b, "activities", <<>>, 200,
                      [activities |-> Serialized(activities[b])])
  /\ activities' = [activities EXCEPT
       ![b] = addActivity(@, Appended(b) + 1, "activities-served", <<>>, clock)]
  /\ UNCHANGED <<served, quota, clock, gw, adapterVars, running>>

\* app.get("/<domain>/activities"): res.json({ activities }).
GetActivities(b) ==
  /\ last' = Exchange(b, "activities", <<>>, 200,
                      [activities |-> Serialized(activities[b])])
  /\ UNCHANGED <<activities, served, quota, clock, gw, adapterVars, running>>

NextBridge ==
  \/ Tick
  \/ \E b \in Bridges : GetMetrics(b)
  \/ \E b \in Bridges, body \in Bodies : PostOptimize(b, body)
  \/ \E b \in Bridges : GetActivities(b)

SpecBridge == InitBridge /\ [][NextBridge]_vars

\* ------------------------------------------------------------------ gateway
\* `const BACKEND_URL = process.env.BACKEND_URL || "http://localhost:8000"`
BACKEND_URL == "http://localhost:8000"

\* Query strings of the requests: no parameter at all, `?target=`, and targets.
Queries ==
  { <<>>,
    [target |-> ""],
    [target |-> "neural/metrics"],
    [target |-> "../admin"] }

\* Raw bodies of the POST requests.
RequestTexts == { "{\"campaign\":\"X\"}", "campaign=X" }

\* Statuses and raw bodies the upstream answers with.
UpstreamStatuses == {200, 404, 500}

UpstreamTexts ==
  { "{\"success\":true}",
    "{\"id\":9007199254740993}",
    "<html>Bad Gateway</html>" }

\* `req.nextUrl.searchParams.get(name)`: null when the parameter is absent.
searchParamsGet(query, name) ==
  IF name \in DOMAIN query THEN Str(query[name]) ELSE Null

\* Mutant: `target === null`, which lets the empty string through.
IsNull(v) == v = Null

\* `!target`: null and the empty string are falsy.
Falsy(v) == v = Null \/ v = Str("")

\* `${BACKEND_URL}/${target}`: the pieces of the template, in order.
UpstreamUrl(target) == <<BACKEND_URL, "/", target[2]>>

\* The JSON document a text denotes (its numbers as written), or NotJson.
NotJson == [notJson |-> TRUE]

JsonDocument(text) ==
  CASE text = "{\"success\":true}" -> [success |-> Bool(TRUE)]
    [] text = "{\"id\":9007199254740993}" -> [id |-> Num("9007199254740993")]
    [] text = "{\"id\":9007199254740992}" -> [id |-> Num("9007199254740992")]
    [] text = "{\"error\":\"No target specified\"}" -> [error |-> Str("No target specified")]
    [] text = "{\"campaign\":\"X\"}" -> [campaign |-> Str("X")]
    [] OTHER -> NotJson

\* A JSON value as JSON.parse represents it: a number becomes the nearest
\* IEEE double, and 2^53 + 1 is not one (it rounds to 2^53).
ToDouble(v) ==
  IF v = Num("9007199254740993") THEN Num("9007199254740992") ELSE v

\* `await res.json()`: the JavaScript value of the body, or a SyntaxError.
SyntaxError == [threw |-> "SyntaxError"]

JSONparse(text) ==
  LET doc == JsonDocument(text)
  IN  IF doc = NotJson THEN SyntaxError
      ELSE [k \in DOMAIN doc |-> ToDouble(doc[k])]

\* JSON.stringify, as NextResponse.json applies it to its argument.
JSONstringify(value) ==
  CASE value = [success |-> Bool(TRUE)] -> "{\"success\":true}"
    [] value = [id |-> Num("9007199254740992")] -> "{\"id\":9007199254740992}"
    [] value = [error |-> Str("No target specified")] -> "{\"error\":\"No target specified\"}"
    [] value = [campaign |-> Str("X")] -> "{\"campaign\":\"X\"}"

\* `NextResponse.json(data, { status })`
NextResponseJson(data, status) == [status |-> status, body |-> JSONstringify(data)]

None == <<>>

\* A call of fetch(url, init).
FetchCall(url, method, body, headers) ==
  [url |-> url, method |-> method, body |-> body, headers |-> headers]

\* The locals of one invocation of a route handler.  pc is where it stands:
\* "text" (awaiting req.text()), "fetch" (awaiting fetch), "json" (awaiting
\* res.json()), "returned" (it returned `response`), "threw" (it threw).
Invocation(method, query, body, pc, target, calls, response) ==
  [method |-> method, query |-> query, body |-> body, pc |-> pc, target |-> target,
   calls |-> calls, res |-> None, response |-> response]

\* Lines 47-48 and 56-57: read target; without one, answer 400.
Rejected(method, query, body) ==
  Invocation(method, query, body, "returned", searchParamsGet(query, "target"), <<>>,
             NextResponseJson([error |-> Str("No target specified")], 400))

\* export async function GET(req), up to its first await: the fetch is issued.
GatewayGET(query) ==
  /\ Len(gw) < MaxGateway
  /\ LET target == searchParamsGet(query, "target")
     IN  gw' = Append(gw,
           IF Falsy(target)
           THEN Rejected("GET", query, None)
           ELSE Invocation("GET", query, None, "fetch", target,
                           <<FetchCall(UpstreamUrl(target), "GET", None, <<>>)>>, None))
  /\ UNCHANGED <<bridgeVars, adapterVars>>

\* export async function POST(req), up to its first await, `await req.text()`.
GatewayPOST(query, body) ==
  /\ Len(gw) < MaxGateway
  /\ LET target == searchParamsGet(query, "target")
     IN  gw' = Append(gw,
           IF Falsy(target)
           THEN Rejected("POST", query, body)
           ELSE Invocation("POST", query, body, "text", target, <<>>, None))
  /\ UNCHANGED <<bridgeVars, adapterVars>>

\* Mutant: the fetch is issued without the Content-Type header.
PostSendNoHeaders(r) ==
  /\ gw[r].pc = "text"
  /\ gw' = [gw EXCEPT ![r].pc = "fetch",
                      ![r].calls = Append(@,
                         FetchCall(UpstreamUrl(gw[r].target), "POST", gw[r].body, <<>>))]
  /\ UNCHANGED <<bridgeVars, adapterVars>>

\* POST: req.text() resolves and the fetch is issued with the text as its body.
PostSend(r) ==
  /\ gw[r].pc = "text"
  /\ gw' = [gw EXCEPT ![r].pc = "fetch",
                      ![r].calls = Append(@,
                         FetchCall(UpstreamUrl(gw[r].target), "POST", gw[r].body,
                                   "Content-Type" :> "application/json"))]
  /\ UNCHANGED <<bridgeVars, adapterVars>>

\* `await fetch(...)` resolves: the upstream answered, with any status.
FetchResolves(r, status, text) ==
  /\ gw[r].pc = "fetch"
  /\ gw' = [gw EXCEPT ![r].pc = "json", ![r].res = [status |-> status, text |-> text]]
  /\ UNCHANGED <<bridgeVars, adapterVars>>

\* `await fetch(...)` rejects (network failure): no handler catches it.
FetchRejects(r) ==
  /\ gw[r].pc = "fetch"
  /\ gw' = [gw EXCEPT ![r].pc = "threw"]
  /\ UNCHANGED <<bridgeVars, adapterVars>>

\* Mutant: the handlers keep the responses in a module-level cache by target,
\* and answer from it.
JsonReturnsCached(r) ==
  /\ gw[r].pc = "json"
  /\ LET hits == {q \in DOMAIN gw : /\ gw[q].pc = "returned"
                                    /\ gw[q].target = gw[r].target
                                    /\ gw[q].method = gw[r].method}
         data == JSONparse(gw[r].res.text)
     IN  gw' = IF hits # {}
               THEN [gw EXCEPT ![r].pc = "returned",
                               ![r].response = gw[CHOOSE q \in hits : TRUE].response]
               ELSE IF data = SyntaxError
               THEN [gw EXCEPT ![r].pc = "threw"]
               ELSE [gw EXCEPT ![r].pc = "returned",
                               ![r].response = NextResponseJson(data, 200)]
  /\ UNCHANGED <<bridgeVars, adapterVars>>

\* Mutant: the upstream's status is passed on,
\* `NextResponse.json(data, { status: res.status })`.
JsonReturnsUpstreamStatus(r) ==
  /\ gw[r].pc = "json"
  /\ LET data == JSONparse(gw[r].res.text)
     IN  gw' = IF data = SyntaxError
               THEN [gw EXCEPT ![r].pc = "threw"]
               ELSE [gw EXCEPT ![r].pc = "returned",
                               ![r].response = NextResponseJson(data, gw[r].res.status)]
  /\ UNCHANGED <<bridgeVars, adapterVars>>

\* `const data = await res.json(); return NextResponse.json(data)`: a body
\* that does not parse makes res.json() reject, and the handler throws.
JsonReturns(r) ==
  /\ gw[r].pc = "json"
  /\ LET data == JSONparse(gw[r].res.text)
     IN  gw' = IF data = SyntaxError
               THEN [gw EXCEPT ![r].pc = "threw"]
               ELSE [gw EXCEPT ![r].pc = "returned",
                               ![r].response = NextResponseJson(data, 200)]
  /\ UNCHANGED <<bridgeVars, adapterVars>>

NextGateway ==
  \/ \E query \in Queries : GatewayGET(query)
  \/ \E query \in Queries, body \in RequestTexts : GatewayPOST(query, body)
  \/ \E r \in DOMAIN gw : PostSend(r)
  \/ \E r \in DOMAIN gw, status \in UpstreamStatuses, text \in UpstreamTexts :
       FetchResolves(r, status, text)
  \/ \E r \in DOMAIN gw : FetchRejects(r)
  \/ \E r \in DOMAIN gw : JsonReturns(r)

\* No bridge is exercised.
Idle == [b \in Bridges |-> NoQuota]

InitGateway == BridgeInit({Idle}) /\ GatewayInit /\ AdapterInit

SpecGateway == InitGateway /\ [][NextGateway]_vars

\* ------------------------------------------------------------------ adapter
\* Targets fetchUniversal is called with.
Targets == {"neural/metrics", ""}

\* Arguments of fetchUniversal, the target and the init it passes on to fetch:
\* a target without init, and the empty target with an init.
Arguments ==
  { [target |-> "neural/metrics", opts |-> None],
    [target |-> "", opts |-> [method |-> "POST", body |-> "{\"campaign\":\"X\"}"]] }

\* Statuses and raw bodies the adapter's fetch resolves with.
ResponseStatuses == {200, 500}

ResponseTexts ==
  { "{\"success\":true}",
    "{\"campaign\":\"X\"}",
    "<html>Bad Gateway</html>" }

\* encodeURIComponent: "/" is escaped, letters, "." and "" are kept.
encodeURIComponent(target) ==
  CASE target = "neural/metrics" -> "neural%2Fmetrics"
    [] target = "../admin" -> "..%2Fadmin"
    [] target = "" -> ""

\* `/api/universal?target=${encodeURIComponent(target)}`: the pieces, in order.
RequestUrl(target) == <<"/api/universal?target=", encodeURIComponent(target)>>

\* `res.ok`: the status is in the range 200-299.
Ok(status) == status \in 200..299

\* The errors thrown in the try block: `new Error("API error")`, the TypeError
\* of a rejected fetch, the SyntaxError of res.json().
ApiError == [name |-> "Error", message |-> "API error"]
FetchError == [name |-> "TypeError", message |-> "Failed to fetch"]
JsonError == [name |-> "SyntaxError", message |-> "Unexpected token"]

\* A call of one of the setters, setLoading / setError / setData.
Set(cell, value) == [cell |-> cell, value |-> value]

\* The hook's state after the setter calls `updates`, made in this order.
Apply(h, updates) ==
  [k \in DOMAIN h |->
     LET at == {n \in DOMAIN updates : updates[n].cell = k}
     IN  IF at = {} THEN h[k]
         ELSE updates[CHOOSE n \in at : \A m \in at : m <= n].value]

\* Mutant: the previous data is kept, no `setData(null)`.
EntrySetsKeepsData == <<Set("loading", TRUE), Set("error", Null)>>

\* Lines 22-24: setLoading(true); setError(null); setData(null).
EntrySets == <<Set("loading", TRUE), Set("error", Null), Set("data", Null)>>

\* Mutant: the JSON is returned but not stored, no `setData(json)`.
SuccessSetsNoData(json) == <<Set("loading", FALSE)>>

\* Lines 29 and 35: setData(json), then the finally block's setLoading(false).
SuccessSets(json) == <<Set("data", json), Set("loading", FALSE)>>

\* Mutant: no finally block, loading is cleared on the success path only.
FailureSetsNoFinally(e) == <<Set("error", Str(e.message))>>

\* Lines 32 and 35: setError(e.message), then the finally block's setLoading(false).
FailureSets(e) == <<Set("error", Str(e.message)), Set("loading", FALSE)>>

\* An invocation has not settled: it awaits fetch or res.json().
InFlight(c) == c.pc \in {"fetch", "json"}

\* The locals of one invocation of fetchUniversal.  pc is where it stands:
\* "fetch" (awaiting fetch), "json" (awaiting res.json()), "resolved" (it
\* returned `result`), "rejected" (it threw `result`).  `sets` are the setter
\* calls it has made; `overlapped` tells whether another invocation was in
\* flight at some moment of its own flight.
NewInvocation(target, opts, overlapped) ==
  [target |-> target, opts |-> opts, pc |-> "fetch",
   request |-> [url |-> RequestUrl(target), init |-> opts],
   res |-> None, result |-> None, sets |-> EntrySets, overlapped |-> overlapped]

\* Lines 29-30 and 35: the invocation stores the JSON and returns it.
Returns(c, json) ==
  [c EXCEPT !.pc = "resolved", !.result = json, !.sets = @ \o SuccessSets(json)]

\* Mutant: the catch block ends without `throw e`: the invocation returns undefined.
ThrowsSwallowed(c, e) ==
  [c EXCEPT !.pc = "resolved", !.result = None, !.sets = @ \o FailureSets(e)]

\* Lines 31-35: the catch block stores the message and throws the error again.
Throws(c, e) ==
  [c EXCEPT !.pc = "rejected", !.result = e, !.sets = @ \o FailureSets(e)]

\* Mutant: an invocation aborts the requests in flight, which reject.
fetchUniversalAborts(target, opts) ==
  /\ Len(invocations) < MaxCalls
  /\ hook' = Apply(hook, EntrySets)
  /\ invocations' =
       Append([j \in DOMAIN invocations |->
                 IF InFlight(invocations[j])
                 THEN [invocations[j] EXCEPT !.pc = "rejected", !.overlapped = TRUE]
                 ELSE invocations[j]],
              NewInvocation(target, opts, FALSE))
  /\ UNCHANGED <<bridgeVars, gw>>

\* fetchUniversal(target, opts), up to its first await: the setters are called
\* and the fetch is issued.  The invocations in flight stay in flight.
fetchUniversal(target, opts) ==
  /\ Len(invocations) < MaxCalls
  /\ hook' = Apply(hook, EntrySets)
  /\ invocations' =
       Append([j \in DOMAIN invocations |->
                 IF InFlight(invocations[j])
                 THEN [invocations[j] EXCEPT !.overlapped = TRUE]
                 ELSE invocations[j]],
              NewInvocation(target, opts,
                            \E j \in DOMAIN invocations : InFlight(invocations[j])))
  /\ UNCHANGED <<bridgeVars, gw>>

\* `await fetch(...)` resolves with a response: `if (!res.ok) throw ...`, which
\* the catch and finally blocks handle at once; otherwise res.json() is awaited.
AdapterFetchResolves(i, status, text) ==
  /\ i \in DOMAIN invocations
  /\ invocations[i].pc = "fetch"
  /\ LET c == [invocations[i] EXCEPT !.res = [status |-> status, text |-> text]]
     IN  IF ~Ok(status)
         THEN /\ hook' = Apply(hook, FailureSets(ApiError))
              /\ invocations' = [invocations EXCEPT ![i] = Throws(c, ApiError)]
         ELSE /\ hook' = hook
              /\ invocations' = [invocations EXCEPT ![i] = [c EXCEPT !.pc = "json"]]
  /\ UNCHANGED <<bridgeVars, gw>>

\* `await fetch(...)` rejects (network failure).
AdapterFetchRejects(i) ==
  /\ i \in DOMAIN invocations
  /\ invocations[i].pc = "fetch"
  /\ hook' = Apply(hook, FailureSets(FetchError))
  /\ invocations' = [invocations EXCEPT ![i] = Throws(@, FetchError)]
  /\ UNCHANGED <<bridgeVars, gw>>

\* `await res.json()` settles: with the JSON, which is stored and returned, or
\* with a SyntaxError, which the catch and finally blocks handle.
AdapterJsonSettles(i) ==
  /\ i \in DOMAIN invocations
  /\ invocations[i].pc = "json"
  /\ LET json == JSONparse(invocations[i].res.text)
     IN  IF json = SyntaxError
         THEN /\ hook' = Apply(hook, FailureSets(JsonError))
              /\ invocations' = [invocations EXCEPT ![i] = Throws(@, JsonError)]
         ELSE /\ hook' = Apply(hook, SuccessSets(Object(json)))
              /\ invocations' = [invocations EXCEPT ![i] = Returns(@, Object(json))]
  /\ UNCHANGED <<bridgeVars, gw>>

\* The outbound call of invocation i settles, or its res.json() does.
Settles(i) ==
  \/ \E status \in ResponseStatuses, text \in ResponseTexts :
       AdapterFetchResolves(i, status, text)
  \/ AdapterFetchRejects(i)
  \/ AdapterJsonSettles(i)

NextAdapter ==
  \/ \E a \in Arguments : fetchUniversal(a.target, a.opts)
  \/ \E i \in DOMAIN invocations, status \in ResponseStatuses, text \in ResponseTexts :
       AdapterFetchResolves(i, status, text)
  \/ \E i \in DOMAIN invocations : AdapterFetchRejects(i)
  \/ \E i \in DOMAIN invocations : AdapterJsonSettles(i)

InitAdapter == BridgeInit({Idle}) /\ GatewayInit /\ AdapterInit

SpecAdapter == InitAdapter /\ [][NextAdapter]_vars

\* Every outbound call settles, and so does every res.json().
SpecAdapterFair ==
  SpecAdapter /\ \A i \in 1..MaxCalls : WF_vars(Settles(i))

\* -------------------------------------------------------------------- stack
\* The adapter in front of the gateway: the requests of fetchUniversal are
\* served by the route handler GET, whose outbound calls the upstream answers.

\* decodeURIComponent, as the URL's searchParams apply it to a value.
decodeURIComponent(text) ==
  CASE text = "neural%2Fmetrics" -> "neural/metrics"
    [] text = "..%2Fadmin" -> "../admin"
    [] text = "" -> ""

\* `req.nextUrl.searchParams` of a request for the adapter's url.
SearchParams(url) == [target |-> decodeURIComponent(url[2])]

\* What the caller of a finished route handler receives: the response it
\* returned, or the framework's 500 when it threw.
HttpResponse(g) ==
  IF g.pc = "returned"
  THEN [status |-> g.response.status, text |-> g.response.body]
  ELSE [status |-> 500, text |-> "Internal Server Error"]

\* The request of invocation i reaches the route handler GET.  Requests reach
\* it in the order of their invocations, so gw[i] serves invocations[i].
Arrives(i) ==
  /\ i \in DOMAIN invocations
  /\ i = Len(gw) + 1
  /\ GatewayGET(SearchParams(invocations[i].request.url))

\* The fetch of invocation i resolves with what the gateway answered.
GatewayAnswers(i) ==
  /\ i \in DOMAIN gw
  /\ gw[i].pc \in {"returned", "threw"}
  /\ AdapterFetchResolves(i, HttpResponse(gw[i]).status, HttpResponse(gw[i]).text)

NextStack ==
  \/ \E target \in Targets : fetchUniversal(target, None)
  \/ \E i \in DOMAIN invocations : Arrives(i)
  \/ \E r \in DOMAIN gw, status \in UpstreamStatuses, text \in UpstreamTexts :
       FetchResolves(r, status, text)
  \/ \E r \in DOMAIN gw : FetchRejects(r)
  \/ \E r \in DOMAIN gw : JsonReturns(r)
  \/ \E i \in DOMAIN invocations : GatewayAnswers(i)
  \/ \E i \in DOMAIN invocations : AdapterFetchRejects(i)
  \/ \E i \in DOMAIN invocations : AdapterJsonSettles(i)

InitStack == BridgeInit({Idle}) /\ GatewayInit /\ AdapterInit

SpecStack == InitStack /\ [][NextStack]_vars

\* ----------------------------------------------------------------- services
\* The two bridges and the gateway running side by side, as three processes.

\* Every bridge receives appending requests of any kind, with the body FillBody.
ServicesQuota ==
  [total |-> MaxPair, metrics |-> MaxPair, optimize |-> MaxPair, bodies |-> {FillBody}]

InitServices ==
  BridgeInit({[b \in Bridges |-> ServicesQuota]}) /\ GatewayInit /\ AdapterInit

NextServices ==
  \/ \E b \in Bridges : GetMetrics(b)
  \/ \E b \in Bridges, body \in Bodies : PostOptimize(b, body)
  \/ \E b \in Bridges : GetActivities(b)
  \/ \E query \in Queries : Len(gw) < MaxForwarded /\ GatewayGET(query)
  \/ \E r \in DOMAIN gw, status \in UpstreamStatuses, text \in UpstreamTexts :
       FetchResolves(r, status, text)
  \/ \E r \in DOMAIN gw : FetchRejects(r)
  \/ \E r \in DOMAIN gw : JsonReturns(r)

SpecServices == InitServices /\ [][NextServices]_vars

\* ---------------------------------------------------------------- callbacks
\* The bridge handlers statement by statement.  A route callback is entered by
\* the service's event loop and runs its statements in order; the statements
\* are "respond" (res.json), "unshift" and "trim" (the two lines of addActivity).

\* Mutant: the append comes first, the response after it.
MetricsStatementsAppendFirst == <<"unshift", "trim", "respond">>

\* GET /metrics: res.json(...); addActivity("metrics-served").
MetricsStatements == <<"respond", "unshift", "trim">>

\* POST /optimize: addActivity("optimize-triggered", req.body); res.json(...).
OptimizeStatements == <<"unshift", "trim", "respond">>

\* GET /activities: res.json({ activities }).
ActivitiesStatements == <<"respond">>

Statements(route) ==
  CASE route = "metrics" -> MetricsStatements
    [] route = "optimize" -> OptimizeStatements
    [] route = "activities" -> ActivitiesStatements

\* The type addActivity is called with on a route.
TypeOf(route) == IF route = "metrics" THEN "metrics-served" ELSE "optimize-triggered"

\* `activities.unshift({ type, ...payload, timestamp: Date.now() })`
unshift(log, ref, type, payload, now) ==
  <<[ref |-> ref, fields |-> NewRecord(type, payload, now)]>> \o log

\* `if (activities.length > 20) activities.length = 20`
trim(log) == IF Len(log) > Capacity THEN SubSeq(log, 1, Capacity) ELSE log

\* The body a route answers with.
ResponseBody(b, route) ==
  CASE route = "metrics" -> MetricsBody(b, clock)
    [] route = "optimize" -> [success |-> TRUE, message |-> OptimizeMessage(b)]
    [] route = "activities" -> [activities |-> Serialized(activities[b])]

\* Mutant: callbacks are entered while another one is running, as threads are.
LoopFreeAlways(b) == TRUE

\* The event loop of bridge b is between callbacks: a handler has no await,
\* so the loop enters the next callback only when the current one has returned.
LoopFree(b) == running[b] = <<>>

\* The event loop of bridge b enters the callback of a route for a request.
\* `saw` is the log as the callback finds it.
Dispatch(b, route, body) ==
  /\ LoopFree(b)
  /\ route # "activities"
       => /\ Appended(b) < quota[b].total
          /\ served[b][route] < quota[b][route]
          /\ route = "optimize" => body \in quota[b].bodies
  /\ running' = [running EXCEPT ![b] = Append(@,
       [route |-> route, body |-> body,
        ref |-> IF route = "activities" THEN 0 ELSE Appended(b) + 1,
        statements |-> Statements(route), saw |-> activities[b]])]
  /\ served' = IF route = "activities" THEN served
               ELSE [served EXCEPT ![b][route] = @ + 1]
  /\ UNCHANGED <<activities, quota, clock, last, gw, adapterVars>>

\* Callback h of bridge b runs its next statement, and returns after its last.
Statement(b, h) ==
  /\ h \in DOMAIN running[b]
  /\ LET c == running[b][h]
         s == Head(c.statements)
     IN  /\ activities' = [activities EXCEPT ![b] =
              CASE s = "unshift" -> unshift(@, c.ref, TypeOf(c.route), c.body, clock)
                [] s = "trim" -> trim(@)
                [] s = "respond" -> @]
         /\ last' = IF s = "respond"
                    THEN Exchange(b, c.route, c.body, 200, ResponseBody(b, c.route))
                    ELSE last
         /\ running' = [running EXCEPT ![b] =
              IF Len(c.statements) = 1
              THEN [k \in 1..(Len(@) - 1) |-> IF k < h THEN @[k] ELSE @[k + 1]]
              ELSE [@ EXCEPT ![h].statements = Tail(c.statements)]]
  /\ UNCHANGED <<served, quota, clock, gw, adapterVars>>

NextCallbacks ==
  \/ \E b \in Bridges : Dispatch(b, "metrics", <<>>)
  \/ \E b \in Bridges, body \in Bodies : Dispatch(b, "optimize", body)
  \/ \E b \in Bridges : Dispatch(b, "activities", <<>>)
  \/ \E b \in Bridges : \E h \in DOMAIN running[b] : Statement(b, h)

\* One bridge receives the requests of the fill workload.
InitCallbacks ==
  /\ BridgeInit({ [b \in Bridges |-> IF b = d THEN FillQuota ELSE NoQuota] : d \in Bridges })
  /\ GatewayInit
  /\ AdapterInit

SpecCallbacks == InitCallbacks /\ [][NextCallbacks]_vars

\* --------------------------------------------------------------------- twins
\* The affiliate bridge as src/unnamed/part_001 writes it, beside the neural
\* bridge of src/app/api/neural-bridge.js, both fed the same requests.

\* `if (activities.length > 20) activities.length = 20` of the affiliate bridge.
AffiliateCapacity == 20

\* Mutant: the affiliate bridge marks its records, `source: "affiliate"`.
AffiliateNewRecordMarked(type, payload, now) ==
  Merge(Merge([type |-> type, source |-> "affiliate"], payload), [timestamp |-> now])

\* `{ type, ...payload, timestamp: Date.now() }` of the affiliate bridge.
AffiliateNewRecord(type, payload, now) ==
  Merge(Merge([type |-> type], payload), [timestamp |-> now])

\* addActivity of the affiliate bridge.
AffiliateAddActivity(log, ref, type, payload, now) ==
  LET unshifted == <<[ref |-> ref, fields |-> AffiliateNewRecord(type, payload, now)]>> \o log
  IN  IF Len(unshifted) > AffiliateCapacity
      THEN SubSeq(unshifted, 1, AffiliateCapacity)
      ELSE unshifted

\* app.get("/affiliate/metrics"): res.json(...) then addActivity("metrics-served").
AffiliateGetMetrics ==
  /\ last' = Exchange("affiliate", "metrics", <<>>, 200, MetricsBody("affiliate", clock))
  /\ activities' = [activities EXCEPT !["affiliate"] =
       AffiliateAddActivity(@, Appended("affiliate") + 1, "metrics-served", <<>>, clock)]
  /\ served' = [served EXCEPT !["affiliate"].metrics = @ + 1]
  /\ UNCHANGED <<quota, clock, gw, adapterVars, running>>

\* app.post("/affiliate/optimize"): addActivity("optimize-triggered", req.body)
\* then res.json({ success: true, message }).
AffiliatePostOptimize(body) ==
  /\ activities' = [activities EXCEPT !["affiliate"] =
       AffiliateAddActivity(@, Appended("affiliate") + 1, "optimize-triggered", body, clock)]
  /\ last' = Exchange("affiliate", "optimize", body, 200,
                      [success |-> TRUE, message |-> "Affiliate optimization started!"])
  /\ served' = [served EXCEPT !["affiliate"].optimize = @ + 1]
  /\ UNCHANGED <<quota, clock, gw, adapterVars, running>>

\* app.get("/affiliate/activities"): res.json({ activities }).
AffiliateGetActivities ==
  /\ last' = Exchange("affiliate", "activities", <<>>, 200,
                      [activities |-> Serialized(activities["affiliate"])])
  /\ UNCHANGED <<activities, served, quota, clock, gw, adapterVars, running>>

\* The neural bridge has handled a request the affiliate bridge has not yet.
Ahead == last.request.bridge = "neural"

\* A request goes to the neural bridge, then the same request to the
\* affiliate bridge, at the same time of the clock.
NextTwins ==
  \/ ~Ahead /\ Tick
  \/ ~Ahead /\ GetMetrics("neural")
  \/ \E body \in Bodies : ~Ahead /\ PostOptimize("neural", body)
  \/ ~Ahead /\ GetActivities("neural")
  \/ Ahead /\ last.request.route = "metrics" /\ AffiliateGetMetrics
  \/ Ahead /\ last.request.route = "optimize" /\ AffiliatePostOptimize(last.request.body)
  \/ Ahead /\ last.request.route = "activities" /\ AffiliateGetActivities

\* The requests are those of the fill workload or of the mixed workload.
InitTwins ==
  /\ BridgeInit({ [b \in Bridges |-> IF b = "neural" THEN q ELSE NoQuota] :
                    q \in {FillQuota, MixedQuota} })
  /\ GatewayInit
  /\ AdapterInit

SpecTwins == InitTwins /\ [][NextTwins]_vars

\* ============================================================ properties
\* The payload of a stored record: what it holds beside type and timestamp
\* (addActivity spreads the payload into the record).
PayloadOf(fields) == [k \in (DOMAIN fields) \ {"type", "timestamp"} |-> fields[k]]

\* The references of the objects in bridge b's log.
Refs(b) == { activities[b][i].ref : i \in 1..Len(activities[b]) }

\* The last exchange is GET /activities of bridge b.
Returned(b) == last.request.bridge = b /\ last.request.route = "activities"

\* C1: the log of every bridge holds at most 20 records in every state, and a
\* request that appends to a log of 20 records leaves 20 records: the new one
\* first, then the 19 newest of before, the oldest gone.
C1_BoundedLog ==
  /\ [](\A b \in Bridges : Len(activities[b]) <= 20)
  /\ [][\A b \in Bridges :
          (Len(activities[b]) = 20 /\ activities'[b] # activities[b])
          => /\ Len(activities'[b]) = 20
             /\ \A i \in 1..19 : activities'[b][i + 1] = activities[b][i]
             /\ activities'[b][1].ref \notin Refs(b)
             /\ \A i \in 1..20 : activities'[b][i].ref # activities[b][20].ref]_vars

C1_Witness ==
  \E b \in Bridges : Len(activities[b]) = 20 /\ Appended(b) > 20

\* C2: GET /activities after n appending requests returns min(n, 20) records,
\* and the record of the k-th appending request is among them exactly when
\* fewer than 20 appending requests came after it.
C2_MostRecent ==
  \A b \in Bridges :
    Returned(b) =>
      LET n == Appended(b)
          ret == last.response.body.activities
      IN  /\ Len(ret) = Min(n, 20)
          /\ Len(ret) = Len(activities[b])
          /\ \A i \in 1..Len(ret) : ret[i] = activities[b][i].fields
          /\ \A k \in 1..n : k \in Refs(b) <=> n - k < 20

C2_Witness ==
  \E b \in Bridges :
    /\ Returned(b)
    /\ served[b] = [metrics |-> 25, optimize |-> 0]
    /\ Len(last.response.body.activities) = 20
    /\ Refs(b) = 6..25

\* C3: in the sequence GET /activities returns, a record appended by a later
\* request stands at a smaller index.
C3_NewestFirst ==
  \A b \in Bridges :
    Returned(b) =>
      LET ret == last.response.body.activities
      IN  /\ Len(ret) = Len(activities[b])
          /\ \A i \in 1..Len(ret) : ret[i] = activities[b][i].fields
          /\ \A i, j \in 1..Len(ret) :
               activities[b][i].ref > activities[b][j].ref => i < j

C3_Witness ==
  \E b \in Bridges :
    /\ Returned(b)
    /\ Len(last.response.body.activities) >= 2
    /\ last.response.body.activities[1].type # last.response.body.activities[2].type

\* C4: POST /optimize with body B appends exactly one record, of type
\* "optimize-triggered" and with payload B, for every body of Bodies.
C4_OptimizeRecord ==
  [][\A b \in Bridges, body \in Bodies :
       PostOptimize(b, body)
       => LET new == activities'[b]
          IN  /\ Len(new) = Min(Len(activities[b]) + 1, 20)
              /\ \A i \in 2..Len(new) : new[i] = activities[b][i - 1]
              /\ new[1].ref \notin Refs(b)
              /\ new[1].fields.type = "optimize-triggered"
              /\ DOMAIN PayloadOf(new[1].fields) = DOMAIN body
              /\ \A k \in DOMAIN body : PayloadOf(new[1].fields)[k] = body[k]]_vars

C6_MetricsRecord ==
  [][\A b \in Bridges :
       served'[b].metrics = served[b].metrics + 1
       => LET new == activities'[b]
          IN  /\ last'.request.bridge = b
              /\ last'.response.status = 200
              /\ Len(new) = Min(Len(activities[b]) + 1, 20)
              /\ \A i \in 2..Len(new) : new[i] = activities[b][i - 1]
              /\ new[1].ref \notin Refs(b)
              /\ DOMAIN new[1].fields = {"type", "timestamp"}
              /\ new[1].fields.type = "metrics-served"
              /\ new[1].fields.timestamp = clock
              /\ \A c \in Bridges \ {b} : activities'[c] = activities[c]
              /\ gw' = gw]_vars

C6_Witness ==
  \E b \in Bridges :
    /\ last.request.bridge = b
    /\ last.request.route = "metrics"
    /\ last.response.status = 200
    /\ activities[b][1].fields = [type |-> "metrics-served", timestamp |-> clock]
    /\ \E c \in Bridges \ {b} : Len(activities[c]) > 0

\* The request's target parameter is absent or the empty string.
NoTarget(r) == "target" \notin DOMAIN gw[r].query \/ gw[r].query.target = ""

\* The upstream answered the request's outbound call.
Answered(r) == gw[r].pc \in {"json", "returned", "threw"} /\ DOMAIN gw[r].res # {}

\* C7: a gateway request, GET or POST, without a target or with an empty one
\* is answered 400 {error: "No target specified"} and makes no outbound call.
C7_NoTargetRejected ==
  \A r \in DOMAIN gw :
    NoTarget(r) =>
      /\ gw[r].pc = "returned"
      /\ gw[r].response.status = 400
      /\ JsonDocument(gw[r].response.body) = [error |-> Str("No target specified")]
      /\ gw[r].calls = <<>>

C7_Witness ==
  \E r, q \in DOMAIN gw :
    /\ gw[r].method = "GET" /\ "target" \notin DOMAIN gw[r].query
    /\ gw[q].method = "POST" /\ gw[q].query = [target |-> ""]
    /\ gw[q].response.status = 400

\* C8: a GET with a non-empty target X makes exactly one outbound call, a GET
\* of <BACKEND_URL>/X, and the body it answers with is the JSON document the
\* upstream sent.
C8_GetRelaysUnchanged ==
  \A r \in DOMAIN gw :
    (gw[r].method = "GET" /\ ~NoTarget(r)) =>
      /\ Len(gw[r].calls) = 1
      /\ gw[r].calls[1].method = "GET"
      /\ gw[r].calls[1].url = <<BACKEND_URL, "/", gw[r].query.target>>
      /\ gw[r].pc = "returned"
           => JsonDocument(gw[r].response.body) = JsonDocument(gw[r].res.text)

\* C9: once the upstream has answered with a body that is JSON, the handler
\* does not throw, and what it returns has status 200, whatever the
\* upstream's status.
C9_AlwaysOk ==
  \A r \in DOMAIN gw :
    (Answered(r) /\ JsonDocument(gw[r].res.text) # NotJson) =>
      /\ gw[r].pc # "threw"
      /\ gw[r].pc = "returned" => gw[r].response.status = 200

C9_Witness ==
  \E r, q \in DOMAIN gw :
    /\ gw[r].pc = "returned" /\ Answered(r) /\ gw[r].res.status = 500
    /\ gw[r].response.status = 200
    /\ gw[q].pc = "returned" /\ Answered(q) /\ gw[q].res.status = 404
    /\ gw[q].response.status = 200

C11_FailuresCaught ==
  \A r \in DOMAIN gw :
    /\ gw[r].pc # "threw"
    /\ (gw[r].pc = "returned" /\ Answered(r) /\ JsonDocument(gw[r].res.text) = NotJson)
         => gw[r].response.status = 502

\* C12: every invocation of fetchUniversal leaves loading true, error null and
\* data null, whatever they were, and its request is then in flight, not yet
\* answered.
C12_InvocationResets ==
  [][Len(invocations') = Len(invocations) + 1
     => LET new == invocations'[Len(invocations')]
        IN  /\ hook'.loading = TRUE
            /\ hook'.error = Null
            /\ hook'.data = Null
            /\ new.pc = "fetch"
            /\ new.res = None]_vars

C12_Witness ==
  \E i \in DOMAIN invocations :
    /\ i > 1
    /\ invocations[i - 1].pc = "resolved"
    /\ invocations[i - 1].overlapped = FALSE
    /\ invocations[i].pc = "fetch"
    /\ hook = [loading |-> TRUE, error |-> Null, data |-> Null]

\* C13: when an invocation that overlapped no other one settles on a response
\* of status 2xx whose body is JSON, it returns the parsed JSON, and the hook
\* is left with data equal to that JSON, error null and loading false.
C13_SuccessState ==
  [][\A i \in DOMAIN invocations :
       LET c == invocations[i]
           d == invocations'[i]
       IN  (/\ InFlight(c) /\ ~InFlight(d)
            /\ ~d.overlapped
            /\ d.res # None
            /\ d.res.status \in 200..299
            /\ JsonDocument(d.res.text) # NotJson)
           => /\ d.pc = "resolved"
              /\ d.result = Object(JSONparse(d.res.text))
              /\ hook' = [loading |-> FALSE, error |-> Null, data |-> d.result]]_vars

C13_Witness ==
  \E i \in DOMAIN invocations :
    /\ invocations[i].pc = "resolved"
    /\ ~invocations[i].overlapped
    /\ invocations[i].res.status = 200
    /\ invocations[i].result = Object([campaign |-> Str("X")])
    /\ hook = [loading |-> FALSE, error |-> Null, data |-> Object([campaign |-> Str("X")])]

\* C14: when an invocation that overlapped no other one fails (its fetch
\* rejects, the response's status is not 2xx, or the body is not JSON), it
\* throws the error to its caller, and the hook is left with the error's
\* message in error, data null and loading false.
C14_FailureState ==
  [][\A i \in DOMAIN invocations :
       LET c == invocations[i]
           d == invocations'[i]
       IN  (/\ InFlight(c) /\ ~InFlight(d)
            /\ ~d.overlapped
            /\ \/ d.res = None
               \/ d.res.status \notin 200..299
               \/ JsonDocument(d.res.text) = NotJson)
           => /\ d.pc = "rejected"
              /\ d.result \in {ApiError, FetchError, JsonError}
              /\ d.result.message # ""
              /\ hook' = [loading |-> FALSE, error |-> Str(d.result.message),
                          data |-> Null]]_vars

C14_Witness ==
  \E i, j \in DOMAIN invocations :
    /\ ~invocations[i].overlapped /\ ~invocations[j].overlapped
    /\ invocations[i].pc = "rejected" /\ invocations[i].result = ApiError
    /\ invocations[j].pc = "rejected" /\ invocations[j].result = JsonError
    /\ i < j
    /\ hook = [loading |-> FALSE, error |-> Str("Unexpected token"), data |-> Null]

\* The setter call u is setLoading(false).
ClearsLoading(u) == u.cell = "loading" /\ u.value = FALSE

\* The setter calls invocation c has made end with setLoading(false).
ClearedLoading(c) == ClearsLoading(c.sets[Len(c.sets)])

\* C15: when every outbound call and every res.json() settles, every
\* invocation of fetchUniversal eventually calls setLoading(false), whether it
\* returns or throws; it calls it only when it settles, and calls no setter
\* after it.
C15_LoadingCleared ==
  /\ \A i \in 1..MaxCalls :
       [](i \in DOMAIN invocations
          => <>(/\ i \in DOMAIN invocations
                /\ ~InFlight(invocations[i])
                /\ ClearedLoading(invocations[i])))
  /\ [](\A i \in DOMAIN invocations :
          LET c == invocations[i]
          IN  /\ ~InFlight(c) => ClearedLoading(c)
              /\ InFlight(c) => \A n \in DOMAIN c.sets : ~ClearsLoading(c.sets[n]))
  /\ [][\A i \in DOMAIN invocations :
          ~InFlight(invocations[i]) => invocations'[i].sets = invocations[i].sets]_vars

C15_Witness ==
  \E i, j \in DOMAIN invocations :
    /\ invocations[i].pc = "resolved" /\ ClearedLoading(invocations[i])
    /\ invocations[j].pc = "rejected" /\ ClearedLoading(invocations[j])
    /\ hook.loading = FALSE

\* C16: an invocation of fetchUniversal leaves the invocations in flight as
\* they are, their requests not cancelled; and when an older invocation
\* settles after a newer one has settled, the hook takes the older one's
\* outcome: its JSON in data, or its message in error.
C16_StaleOverwrite ==
  [][/\ Len(invocations') = Len(invocations) + 1
        => \A j \in DOMAIN invocations :
             /\ invocations'[j].pc = invocations[j].pc
             /\ invocations'[j].request = invocations[j].request
             /\ invocations'[j].sets = invocations[j].sets
     /\ \A i, j \in DOMAIN invocations :
          LET c == invocations[i]
              d == invocations'[i]
          IN  (i < j /\ ~InFlight(invocations[j]) /\ InFlight(c) /\ ~InFlight(d))
              => /\ hook'.loading = FALSE
                 /\ d.pc = "resolved" => hook'.data = d.result
                 /\ d.pc = "rejected" => hook'.error = Str(d.result.message)]_vars

\* Both invocations have settled, the older one last: data is the older one's JSON.
C16_Witness ==
  /\ Len(invocations) = 2
  /\ invocations[1].overlapped /\ invocations[2].overlapped
  /\ invocations[1].pc = "resolved"
  /\ invocations[1].result = Object([success |-> Bool(TRUE)])
  /\ invocations[2].pc = "resolved"
  /\ invocations[2].result = Object([campaign |-> Str("X")])
  /\ hook = [loading |-> FALSE, error |-> Null, data |-> Object([success |-> Bool(TRUE)])]

\* C17: when a single invocation of fetchUniversal has settled and the
\* upstream answered the gateway's outbound call for it with status 500, the
\* hook holds data null, an error and loading false.
C17_Upstream500IsFailure ==
  \A i \in DOMAIN invocations :
    (/\ Len(invocations) = 1
     /\ ~InFlight(invocations[i])
     /\ i \in DOMAIN gw
     /\ Answered(i)
     /\ gw[i].res.status = 500)
    => /\ hook.data = Null
       /\ hook.error # Null
       /\ hook.loading = FALSE

\* What a route handler does with a request it handles with no other request
\* around, given the upstream's reply to its outbound call (None when the
\* call fails, or is not made): it returns a response, or it throws.
Alone(method, query, body, reply) ==
  LET target == searchParamsGet(query, "target")
  IN  IF Falsy(target)
      THEN [pc |-> "returned",
            response |-> NextResponseJson([error |-> Str("No target specified")], 400)]
      ELSE IF reply = None \/ JSONparse(reply.text) = SyntaxError
      THEN [pc |-> "threw", response |-> None]
      ELSE [pc |-> "returned", response |-> NextResponseJson(JSONparse(reply.text), 200)]

\* C18: however the gateway's requests interleave, a finished request has the
\* outcome it would have alone, a function of its method, target, body and of
\* the upstream's reply to its own outbound call; and a step of one request
\* changes nothing of the other requests, nor anything outside the requests.
C18_Stateless ==
  /\ [](\A r \in DOMAIN gw :
          gw[r].pc \in {"returned", "threw"}
          => [pc |-> gw[r].pc, response |-> gw[r].response]
               = Alone(gw[r].method, gw[r].query, gw[r].body, gw[r].res))
  /\ [][/\ Len(gw') >= Len(gw)
        /\ Cardinality({r \in DOMAIN gw' : r \notin DOMAIN gw \/ gw'[r] # gw[r]}) <= 1
        /\ gw' # gw => <<bridgeVars, adapterVars>>' = <<bridgeVars, adapterVars>>]_vars

\* Two requests for the same target are in the gateway together, and each got
\* the answer to its own outbound call.
C18_Witness ==
  \E r, q \in DOMAIN gw :
    /\ r < q
    /\ gw[r].method = gw[q].method
    /\ gw[r].query = [target |-> "neural/metrics"]
    /\ gw[q].query = gw[r].query
    /\ gw[r].pc = "returned" /\ gw[q].pc = "returned"
    /\ gw[r].res.text = "{\"id\":9007199254740993}"
    /\ gw[q].res.text = "{\"success\":true}"
    /\ gw[r].response.body = "{\"id\":9007199254740992}"
    /\ gw[q].response.body = "{\"success\":true}"

\* C19: the log of every bridge is empty at the start, and a step changes it
\* only when that bridge handles a GET /metrics or a POST /optimize: the
\* requests the other bridge handles and the steps of the gateway's requests
\* leave it as it is.
C19_LogOwnership ==
  /\ \A b \in Bridges : activities[b] = <<>>
  /\ [][\A b \in Bridges :
          activities'[b] # activities[b]
          => /\ last'.request.bridge = b
             /\ last'.request.route \in {"metrics", "optimize"}
             /\ served'[b] # served[b]
             /\ \A c \in Bridges \ {b} : served'[c] = served[c]
             /\ gw' = gw]_vars

\* Both bridges have appended to their logs and the gateway has answered a
\* request for a target of the neural bridge.
C19_Witness ==
  /\ activities["neural"] # <<>>
  /\ activities["affiliate"] # <<>>
  /\ activities["affiliate"][1].fields.type # activities["neural"][1].fields.type
  /\ \E r \in DOMAIN gw :
       /\ gw[r].query = [target |-> "neural/metrics"]
       /\ gw[r].pc = "returned"

\* C20: GET /activities leaves the log of every bridge as it was and appends
\* no record; a GET /activities that follows a GET /activities of the same
\* bridge returns the same sequence.
C20_ActivitiesReadOnly ==
  [][\A b \in Bridges :
       GetActivities(b)
       => /\ activities' = activities
          /\ served' = served
          /\ last'.response.body.activities = Serialized(activities[b])
          /\ Returned(b) => last'.response.body.activities = last.response.body.activities]_vars

\* GET /activities has answered with a full log, newest first, and the log is
\* still the one it answered with.
C20_Witness ==
  \E b \in Bridges :
    /\ Returned(b)
    /\ Len(activities[b]) = 20
    /\ served[b].optimize = 1
    /\ last.response.body.activities = Serialized(activities[b])

\* Every record of a serialized log is whole: it has its type and its timestamp.
Whole(records) ==
  \A i \in 1..Len(records) : {"type", "timestamp"} \subseteq DOMAIN records[i]

\* C21: the log a callback finds when it is entered, and the log GET
\* /activities answers with, has at most 20 records, all of them whole, though
\* the log holds 21 records between the two statements of addActivity; and
\* when a callback returns, the log is the one addActivity makes in one piece
\* of the log the callback found, so that the log is always the outcome of the
\* requests handled one after the other, in the order they were entered.
C21_AtomicAppend ==
  /\ [](\A b \in Bridges :
          /\ \A h \in DOMAIN running[b] :
               /\ Len(running[b][h].saw) <= 20
               /\ Whole(Serialized(running[b][h].saw))
          /\ LoopFree(b) => Len(activities[b]) <= 20
          /\ Returned(b) => /\ Len(last.response.body.activities) <= 20
                            /\ Whole(last.response.body.activities))
  /\ [][\A b \in Bridges : \A h \in DOMAIN running[b] :
          LET c == running[b][h]
          IN  (Len(c.statements) = 1 /\ Statement(b, h))
              => activities'[b] =
                   IF c.route = "activities" THEN c.saw
                   ELSE addActivity(c.saw, c.ref, TypeOf(c.route), c.body, clock)]_vars

\* A callback of POST /optimize stands between unshift and trim with 21
\* records in the log, after a GET /activities that answered with 20.
C21_Witness ==
  \E b \in Bridges :
    /\ Len(activities[b]) = 21
    /\ Len(running[b]) = 1
    /\ running[b][1].route = "optimize"
    /\ running[b][1].statements = <<"trim", "respond">>
    /\ Returned(b)
    /\ Len(last.response.body.activities) = 20

\* C22: in every step, every record of a log is found again in the new log
\* with all its fields as they were, at the same index or one further to the
\* tail, or it is not in the new log at all.
C22_RecordsImmutable ==
  [][\A b \in Bridges :
       \/ activities'[b] = activities[b]
       \/ \A i \in DOMAIN activities[b] :
            LET old == activities[b][i]
                new == activities'[b]
            IN  \/ i + 1 <= Len(new) /\ new[i + 1] = old
                \/ i <= Len(new) /\ new[i] = old
                \/ \A j \in DOMAIN new : new[j].ref # old.ref]_vars

\* A full log after an eviction: its last record was made before the clock
\* moved, its first one after.
C22_Witness ==
  \E b \in Bridges :
    /\ Len(activities[b]) = 20
    /\ Appended(b) = 21
    /\ activities[b][20].ref = 2
    /\ activities[b][20].fields.timestamp = 0
    /\ activities[b][1].fields.timestamp = 1

\* C23: in every state of the hook, data or error is null.
C23_DataOrError ==
  hook.data = Null \/ hook.error = Null

\* C24: in every state in which an invocation of fetchUniversal is in flight,
\* loading is true.
C24_LoadingWhileInFlight ==
  (\E i \in DOMAIN invocations : InFlight(invocations[i])) => hook.loading = TRUE

\* C25: the callback of GET /metrics answers while its record is not yet in
\* the log; and whenever a callback of the same bridge is entered, the records
\* of all the appending requests entered before are in the log it finds, up to
\* the 20 newest, the newest first.
C25_AppendBeforeNextRequest ==
  [][\A b \in Bridges :
       /\ \A h \in DOMAIN running[b] :
            LET c == running[b][h]
            IN  (c.route = "metrics" /\ Head(c.statements) = "respond" /\ Statement(b, h))
                => /\ c.ref \notin Refs(b)
                   /\ activities' = activities
                   /\ last'.request.route = "metrics"
                   /\ last'.response.status = 200
       /\ Len(running'[b]) = Len(running[b]) + 1
            => LET n == Appended(b)
               IN  /\ Len(activities[b]) = Min(n, 20)
                   /\ \A i \in 1..Len(activities[b]) : activities[b][i].ref = n + 1 - i
                   /\ running'[b][Len(running'[b])].saw = activities[b]]_vars

\* GET /activities is entered after the response of a GET /metrics, and
\* finds the record of that request first in the log.
C25_Witness ==
  \E b \in Bridges :
    /\ Len(running[b]) = 1
    /\ running[b][1].route = "activities"
    /\ last.request.bridge = b
    /\ last.request.route = "metrics"
    /\ running[b][1].saw # <<>>
    /\ running[b][1].saw[1].ref = Appended(b)
    /\ running[b][1].saw[1].fields.type = "metrics-served"

\* C26: under a clock that only moves forward (Tick), in every log the
\* timestamp of a record is not smaller than the timestamp of the record
\* after it, whatever the bodies of the requests were, a body with a
\* timestamp key of its own included.
C26_TimestampsOrdered ==
  \A b \in Bridges : \A i \in 1..(Len(activities[b]) - 1) :
    activities[b][i].fields.timestamp >= activities[b][i + 1].fields.timestamp

\* A log with records made before and after the clock moved, one of them from
\* a body with keys of its own.
C26_Witness ==
  \E b \in Bridges :
    /\ Len(activities[b]) >= 3
    /\ activities[b][1].fields.timestamp = 1
    /\ activities[b][Len(activities[b])].fields.timestamp = 0
    /\ \E i \in DOMAIN activities[b] : "foo" \in DOMAIN activities[b][i].fields

\* C27: whenever the two bridges have handled the same requests, with the
\* same bodies and at the same times of the clock, their logs are equal, and
\* GET /activities of the affiliate bridge answers with the sequence GET
\* /activities of the neural bridge answered with.
C27_SameLogMachine ==
  /\ ~Ahead => activities["affiliate"] = activities["neural"]
  /\ Returned("affiliate")
       => last.response.body.activities = Serialized(activities["neural"])

\* Both bridges have handled the same 21 requests, a POST /optimize among them.
C27_Witness ==
  /\ last.request.bridge = "affiliate"
  /\ served["affiliate"] = [metrics |-> 20, optimize |-> 1]
  /\ served["neural"] = served["affiliate"]
  /\ Len(activities["affiliate"]) = 20
  /\ activities["affiliate"] = activities["neural"]


\* C28: while the outbound call of a gateway request has not settled, the
\* request stays pending, and only that call settling changes it; while the
\* outbound call of an invocation of fetchUniversal has not settled, loading
\* is true and the invocation stays pending, and only that call settling ends
\* this (an invocation made meanwhile keeps loading true).
C28_PendingUntilSettled ==
  [][/\ \A r \in DOMAIN gw :
          (gw[r].pc = "fetch" /\ gw'[r] # gw[r])
          => \/ \E status \in UpstreamStatuses, text \in UpstreamTexts :
                  FetchResolves(r, status, text)
             \/ FetchRejects(r)
     /\ \A i \in DOMAIN invocations :
          invocations[i].pc = "fetch"
          => \/ GatewayAnswers(i)
             \/ AdapterFetchRejects(i)
             \/ /\ invocations'[i].pc = "fetch"
                /\ hook.loading = TRUE
                /\ hook'.loading = TRUE]_vars

====
